---- MODULE Spec2Model ----
(***************************************************************************)
(* Model of scripts/file_renamer.py: the filename transforms, the          *)
(* rename_files loop over a directory, and main() building the pattern     *)
(* from the command line.                                                  *)
(*                                                                         *)
(* A string is a sequence of one-character strings, a path is a sequence   *)
(* of components relative to the target directory (a file directly in the  *)
(* target directory is a path of length 1).                                *)
(***************************************************************************)
EXTENDS Integers, Sequences, FiniteSets, TLC

(***************************************************************************)
(* Characters and Python's str ordering (by code point).                   *)
(***************************************************************************)
Digits == <<"0", "1", "2", "3", "4", "5", "6", "7", "8", "9">>

DigitSet == {Digits[i] : i \in 1..Len(Digits)}

Letters == {"a", "b", "s", "t", "x"}

\* ord(): code points of the characters the model uses
Ord(c) ==
    CASE c = " " -> 32
      [] c = "#" -> 35
      [] c = "-" -> 45
      [] c = "." -> 46
      [] c = "/" -> 47
      [] c \in DigitSet -> 47 + (CHOOSE i \in 1..Len(Digits) : Digits[i] = c)
      [] c = "_" -> 95
      [] c = "a" -> 97
      [] c = "b" -> 98
      [] c = "s" -> 115
      [] c = "t" -> 116
      [] c = "x" -> 120
      [] c = "~" -> 126

\* re: \w (alphanumeric or underscore) and \s (whitespace)
IsWord(c) == c \in Letters \cup DigitSet \cup {"_"}

IsSpace(c) == c = " "

\* str.__lt__: lexicographic by code point, a proper prefix is smaller
StrLess(s, t) ==
    \E k \in 1..Len(t) :
        /\ k <= Len(s) + 1
        /\ \A j \in 1..(k - 1) : s[j] = t[j]
        /\ (k = Len(s) + 1 \/ Ord(s[k]) < Ord(t[k]))

\* PurePath.__lt__: the parts lists compared lexicographically, each part as a str
PathLess(p, q) ==
    \E k \in 1..Len(q) :
        /\ k <= Len(p) + 1
        /\ \A j \in 1..(k - 1) : p[j] = q[j]
        /\ (k = Len(p) + 1 \/ StrLess(p[k], q[k]))

\* a variant that sorts by the path written as one string, str(path)
RECURSIVE Flatten(_)
Flatten(p) ==
    IF Len(p) = 1 THEN p[1] ELSE p[1] \o <<"/">> \o Flatten(Tail(p))

RECURSIVE SortedByString(_)
SortedByString(S) ==
    IF S = {} THEN <<>>
    ELSE LET m == CHOOSE x \in S : \A y \in S \ {x} : StrLess(Flatten(x), Flatten(y))
         IN <<m>> \o SortedByString(S \ {m})

\* sorted(files): ascending by PurePath.__lt__
RECURSIVE SortedPaths(_)
SortedPaths(S) ==
    IF S = {} THEN <<>>
    ELSE LET m == CHOOSE x \in S : \A y \in S \ {x} : PathLess(x, y)
         IN <<m>> \o SortedPaths(S \ {m})

(***************************************************************************)
(* os.path.splitext                                                        *)
(***************************************************************************)
\* str.rfind(c) + 1: the last position of c in p, 0 when absent
RFind(p, c) ==
    LET hits == {i \in 1..Len(p) : p[i] = c}
    IN IF hits = {} THEN 0 ELSE CHOOSE i \in hits : \A j \in hits : j <= i

\* genericpath._splitext(p, '/', None, '.'): split at the last dot after the
\* last separator, unless only dots precede it in the last component
splitext(p) ==
    LET sepIndex == RFind(p, "/")
        dotIndex == RFind(p, ".")
    IN IF /\ dotIndex > sepIndex
        /\ \E k \in (sepIndex + 1)..(dotIndex - 1) : p[k] # "."
       THEN <<SubSeq(p, 1, dotIndex - 1), SubSeq(p, dotIndex, Len(p))>>
       ELSE <<p, <<>>>>

(***************************************************************************)
(* The transforms.                                                         *)
(***************************************************************************)
add_prefix(filename, prefix) == prefix \o filename

add_suffix(filename, suffix) ==
    LET ne == splitext(filename)
    IN ne[1] \o suffix \o ne[2]

\* str.startswith at position i (1-based)
MatchAt(s, old, i) ==
    /\ i + Len(old) - 1 <= Len(s)
    /\ \A j \in 1..Len(old) : s[i + j - 1] = old[j]

\* str.replace(old, new): every non-overlapping occurrence, left to right;
\* an empty old inserts new before every character and at the end
RECURSIVE ReplaceFrom(_, _, _, _)
ReplaceFrom(s, old, new, i) ==
    IF i > Len(s) THEN (IF old = <<>> THEN new ELSE <<>>)
    ELSE IF old = <<>> THEN new \o <<s[i]>> \o ReplaceFrom(s, old, new, i + 1)
    ELSE IF MatchAt(s, old, i) THEN new \o ReplaceFrom(s, old, new, i + Len(old))
    ELSE <<s[i]>> \o ReplaceFrom(s, old, new, i + 1)

replace_text(filename, old_text, new_text) == ReplaceFrom(filename, old_text, new_text, 1)

\* str(number) for number >= 0
RECURSIVE Str(_)
Str(n) == IF n < 10 THEN <<Digits[n + 1]>> ELSE Str(n \div 10) \o <<Digits[(n % 10) + 1]>>

\* str.zfill(width) of an unsigned numeral
RECURSIVE zfill(_, _)
zfill(s, width) == IF Len(s) >= width THEN s ELSE zfill(<<"0">> \o s, width)

add_sequential_number(filename, number, digits) ==
    LET ne == splitext(filename)
    IN ne[1] \o <<"_">> \o zfill(Str(number), digits) \o ne[2]

\* datetime.strftime for the directives %Y, %m, %d; other characters are literal
RECURSIVE strftime(_, _)
strftime(now, fmt) ==
    IF fmt = <<>> THEN <<>>
    ELSE IF fmt[1] = "%" /\ Len(fmt) >= 2
    THEN (CASE fmt[2] = "Y" -> zfill(Str(now.year), 4)
            [] fmt[2] = "m" -> zfill(Str(now.month), 2)
            [] fmt[2] = "d" -> zfill(Str(now.day), 2)
            [] OTHER -> <<fmt[1], fmt[2]>>) \o strftime(now, SubSeq(fmt, 3, Len(fmt)))
    ELSE <<fmt[1]>> \o strftime(now, Tail(fmt))

add_date_stamp(filename, date_format, now) ==
    LET ne == splitext(filename)
    IN ne[1] \o <<"_">> \o strftime(now, date_format) \o ne[2]

\* re.sub(r'[^\w\s-]', '', name)
RemoveSpecial(name) == SelectSeq(name, LAMBDA c : IsWord(c) \/ IsSpace(c) \/ c = "-")

\* re.sub(r'\s+', '_', name): each maximal run of whitespace becomes one underscore
RECURSIVE SpacesToUnderscore(_)
SpacesToUnderscore(name) ==
    IF name = <<>> THEN <<>>
    ELSE IF IsSpace(name[1])
    THEN IF Len(name) >= 2 /\ IsSpace(name[2])
         THEN SpacesToUnderscore(Tail(name))
         ELSE <<"_">> \o SpacesToUnderscore(Tail(name))
    ELSE <<name[1]>> \o SpacesToUnderscore(Tail(name))

\* re.sub(r'_+', '_', name): each maximal run of underscores becomes one
RECURSIVE CollapseUnderscores(_)
CollapseUnderscores(name) ==
    IF name = <<>> THEN <<>>
    ELSE IF name[1] = "_" /\ Len(name) >= 2 /\ name[2] = "_"
    THEN CollapseUnderscores(Tail(name))
    ELSE <<name[1]>> \o CollapseUnderscores(Tail(name))

\* a variant that collapses underscores before it replaces whitespace
sanitize_filename_collapse_first(filename) ==
    LET ne == splitext(filename)
    IN SpacesToUnderscore(CollapseUnderscores(RemoveSpecial(ne[1]))) \o ne[2]

sanitize_filename(filename) ==
    LET ne == splitext(filename)
    IN CollapseUnderscores(SpacesToUnderscore(RemoveSpecial(ne[1]))) \o ne[2]

(***************************************************************************)
(* The command line, the clock and the directory the model draws from.     *)
(***************************************************************************)
\* argparse.Namespace without --execute; an option that was not given (None)
\* is the empty sequence; --digits is varied only together with --sequential
ArgsSet ==
    {a \in [sanitize : BOOLEAN,
            prefix : {<<>>, <<"a">>},
            suffix : {<<>>, <<"s">>},
            replace : {<<>>, << <<"a">>, <<"#">> >>},
            sequential : BOOLEAN,
            digits : {1, 3},
            date : BOOLEAN,
            date_format : {<<"%", "Y", "%", "m", "%", "d">>},
            recursive : BOOLEAN] : a.sequential \/ a.digits = 3}

\* datetime.now()
Clock == {[year |-> 2024, month |-> 1, day |-> 5]}

\* candidate files of the target directory: six directly in it, one in the
\* subdirectory "#"
Universe ==
    {<< <<"a", "b">> >>, << <<"b">> >>, << <<"b", "_", "1">> >>,
     << <<"#", ".", "t">> >>, << <<".", "t">> >>, << <<"~", ".", "t">> >>,
     << <<"#">>, <<"b">> >>}

\* largest number of files in the directory tree
MaxFiles == 3

\* largest number of invocations of the tool on the same directory
MaxRuns == 2

VARIABLES
    args,           \* the command line options other than --execute
    now,            \* the date the clock shows
    dir_exists,     \* whether the target directory exists
    files,          \* the files of the target directory tree, as relative paths
    pc,             \* "idle" | "loop" | "done"
    pattern,        \* the pattern dictionary main() built
    dry_run,        \* rename_files' dry_run parameter
    listing,        \* sorted(files) of rename_files
    idx,            \* the loop index of enumerate(..., start=1)
    renamed_count,  \* rename_files' renamed_count
    out,            \* the lines printed by the current invocation
    trace,          \* history: what happened to each entry processed so far
    fs0,            \* history: files when the current invocation started
    runs,           \* history: number of invocations so far
    prev,           \* history: mode, start directory and output of the previous invocation
    fn_in,          \* a filename handed to sanitize_filename on its own
    fn_out          \* the results of applying sanitize_filename to it repeatedly

vars == <<args, now, dir_exists, files, pc, pattern, dry_run, listing, idx,
          renamed_count, out, trace, fs0, runs, prev, fn_in, fn_out>>

(***************************************************************************)
(* pathlib on the directory tree.                                          *)
(***************************************************************************)
\* Path.name and Path.parent
Name(p) == p[Len(p)]

Parent(p) == SubSeq(p, 1, Len(p) - 1)

\* the subdirectories of the tree: the proper ancestors of its files
Dirs(fs) == UNION {{SubSeq(p, 1, n) : n \in 1..(Len(p) - 1)} : p \in fs}

\* file_path.parent / new_name ("" and "." denote the parent itself)
JoinPath(parent, name) ==
    IF name = <<>> \/ name = <<".">> THEN parent ELSE parent \o <<name>>

\* Path.exists(): the target directory, a file, a subdirectory, or ".."
PathExists(fs, p) ==
    \/ p = <<>>
    \/ p \in fs
    \/ p \in Dirs(fs)
    \/ Name(p) = <<".", ".">>

\* path.rglob('*') or path.iterdir(), filtered by is_file()
ListFiles(fs, recursive) ==
    IF recursive THEN fs ELSE {p \in fs : Len(p) = 1}

(***************************************************************************)
(* main(): the pattern dictionary.                                         *)
(***************************************************************************)
\* one optional dictionary entry
Entry(cond, key, val) == IF cond THEN key :> val ELSE <<>>

\* main(): pattern = {} followed by the six conditional insertions
BuildPattern(a) ==
    Entry(a.sanitize, "sanitize", TRUE)
    @@ Entry(a.prefix # <<>>, "prefix", a.prefix)
    @@ Entry(a.suffix # <<>>, "suffix", a.suffix)
    @@ Entry(a.replace # <<>>, "replace", a.replace)
    @@ Entry(a.sequential, "sequential", TRUE)
    @@ Entry(a.sequential, "digits", a.digits)
    @@ Entry(a.date, "date", TRUE)
    @@ Entry(a.date, "date_format", a.date_format)

\* pattern.get(key) is truthy, for a flag and for a string or list value
GetFlag(p, key) == key \in DOMAIN p /\ p[key] = TRUE

GetText(p, key) == key \in DOMAIN p /\ Len(p[key]) > 0

\* pattern.get(key, default)
GetOr(p, key, default) == IF key \in DOMAIN p THEN p[key] ELSE default

(***************************************************************************)
(* rename_files: the body of the loop.                                     *)
(***************************************************************************)
\* a variant that applies the transformations in the order main() inserts
\* them into the dictionary: sanitize, prefix, suffix, replace, sequential, date
TransformInsertionOrder(p, old_name, i, t) ==
    LET n1 == IF GetFlag(p, "sanitize") THEN sanitize_filename(old_name) ELSE old_name
        n2 == IF GetText(p, "prefix") THEN add_prefix(n1, p["prefix"]) ELSE n1
        n3 == IF GetText(p, "suffix") THEN add_suffix(n2, p["suffix"]) ELSE n2
        n4 == IF GetText(p, "replace")
              THEN replace_text(n3, p["replace"][1], p["replace"][2]) ELSE n3
        n5 == IF GetFlag(p, "sequential")
              THEN add_sequential_number(n4, i, GetOr(p, "digits", 3)) ELSE n4
        n6 == IF GetFlag(p, "date")
              THEN add_date_stamp(n5, GetOr(p, "date_format", <<"%", "Y", "%", "m", "%", "d">>), t)
              ELSE n5
    IN n6

\* the six conditional transformations of one entry, in the order of the code
Transform(p, old_name, i, t) ==
    LET n1 == IF GetFlag(p, "sanitize") THEN sanitize_filename(old_name) ELSE old_name
        n2 == IF GetText(p, "replace")
              THEN replace_text(n1, p["replace"][1], p["replace"][2]) ELSE n1
        n3 == IF GetText(p, "prefix") THEN add_prefix(n2, p["prefix"]) ELSE n2
        n4 == IF GetText(p, "suffix") THEN add_suffix(n3, p["suffix"]) ELSE n3
        n5 == IF GetFlag(p, "sequential")
              THEN add_sequential_number(n4, i, GetOr(p, "digits", 3)) ELSE n4
        n6 == IF GetFlag(p, "date")
              THEN add_date_stamp(n5, GetOr(p, "date_format", <<"%", "Y", "%", "m", "%", "d">>), t)
              ELSE n5
    IN n6

\* the entry the loop is at: file_path, old_name, new_name and new_path
Current ==
    LET fp == listing[idx]
        nn == Transform(pattern, Name(fp), idx, now)
    IN [file_path |-> fp, old_name |-> Name(fp), new_name |-> nn,
        new_path |-> JoinPath(Parent(fp), nn)]

\* a variant without the "name changed" test
NameChangedAlways(e) == TRUE

\* "if new_name != old_name"
NameChanged(e) == e.new_name # e.old_name

\* a variant that tests the directory as it was when the run started
TargetExistedAtStart(fs, e) == PathExists(fs0, e.new_path)

\* a variant without the "target exists" test
TargetExistsNever(fs, e) == FALSE

\* "if new_path.exists()"
TargetExists(fs, e) == PathExists(fs, e.new_path)

\* a variant that ignores dry_run
ExecutesAlways(dry) == TRUE

\* "if not dry_run"
Executes(dry) == ~dry

\* a printed line
Line(k, o, n, c) == [k |-> k, old |-> o, new |-> n, n |-> c]

\* a history entry
Outcome(e, what) == [path |-> e.file_path, new |-> e.new_name, what |-> what]

(***************************************************************************)
(* The initial state: a shell prompt, before the tool is invoked.          *)
(***************************************************************************)
\* a directory tree: no file is at the same time a directory of another
WellFormed(fs) == fs \cap Dirs(fs) = {}

NoPrev == [valid |-> FALSE, dry_run |-> FALSE, fs0 |-> {}, out |-> <<>>]

Init ==
    /\ args \in ArgsSet
    /\ now \in Clock
    /\ dir_exists \in BOOLEAN
    /\ files \in {fs \in SUBSET Universe : Cardinality(fs) <= MaxFiles /\ WellFormed(fs)}
    /\ dir_exists \/ files = {}
    /\ pc = "idle"
    /\ pattern = <<>>
    /\ dry_run = TRUE
    /\ listing = <<>>
    /\ idx = 1
    /\ renamed_count = 0
    /\ out = <<>>
    /\ trace = <<>>
    /\ fs0 = files
    /\ runs = 0
    /\ prev = NoPrev
    /\ fn_in = <<>>
    /\ fn_out = <<>>

(***************************************************************************)
(* main() and the start of rename_files.                                   *)
(***************************************************************************)
\* the tool can be invoked: for the first time, or again after a dry run has
\* returned (its last line tells the user to run it again with --execute)
CanInvoke ==
    \/ pc = "idle"
    \/ pc = "done" /\ dry_run /\ runs < MaxRuns

\* the bookkeeping of an invocation: the previous one, if any, is remembered
Invoked(execute) ==
    /\ pattern' = BuildPattern(args)
    /\ dry_run' = ~execute
    /\ runs' = runs + 1
    /\ fs0' = files
    /\ trace' = <<>>
    /\ idx' = 1
    /\ renamed_count' = 0
    /\ prev' = IF pc = "done"
               THEN [valid |-> TRUE, dry_run |-> dry_run, fs0 |-> fs0, out |-> out]
               ELSE prev
    /\ UNCHANGED <<args, now, dir_exists, files, fn_in, fn_out>>

\* main(): "if not pattern": error, sys.exit(1)
MainNoPattern ==
    /\ CanInvoke
    /\ BuildPattern(args) = <<>>
    /\ \E execute \in BOOLEAN : Invoked(execute)
    /\ listing' = <<>>
    /\ out' = <<Line("no_pattern", <<>>, <<>>, 0)>>
    /\ pc' = "done"

\* rename_files: "if not path.exists()": error, return
RunNoDirectory ==
    /\ CanInvoke
    /\ BuildPattern(args) # <<>>
    /\ ~dir_exists
    /\ \E execute \in BOOLEAN : Invoked(execute)
    /\ listing' = <<>>
    /\ out' = <<Line("no_directory", <<>>, <<>>, 0)>>
    /\ pc' = "done"

\* rename_files: "if not files": warning, return
RunNoFiles ==
    /\ CanInvoke
    /\ BuildPattern(args) # <<>>
    /\ dir_exists
    /\ ListFiles(files, args.recursive) = {}
    /\ \E execute \in BOOLEAN : Invoked(execute)
    /\ listing' = <<>>
    /\ out' = <<Line("no_files", <<>>, <<>>, 0)>>
    /\ pc' = "done"

\* rename_files: the header is printed and the loop over sorted(files) starts
RunBegin ==
    /\ CanInvoke
    /\ BuildPattern(args) # <<>>
    /\ dir_exists
    /\ ListFiles(files, args.recursive) # {}
    /\ \E execute \in BOOLEAN :
        /\ Invoked(execute)
        /\ out' = <<Line(IF execute THEN "header_execute" ELSE "header_dry_run",
                         <<>>, <<>>, Cardinality(ListFiles(files, args.recursive)))>>
    /\ listing' = SortedPaths(ListFiles(files, args.recursive))
    /\ pc' = "loop"

(***************************************************************************)
(* One iteration of the loop, by the branch it takes.                      *)
(***************************************************************************)
InLoop == pc = "loop" /\ idx <= Len(listing)

\* what every iteration does: the next entry, the history
Advance(e, what) ==
    /\ idx' = idx + 1
    /\ trace' = Append(trace, Outcome(e, what))
    /\ UNCHANGED <<args, now, dir_exists, pattern, dry_run, listing, fs0, runs, prev,
                   fn_in, fn_out>>

\* new_name == old_name: nothing is printed or done
StepUnchanged ==
    /\ InLoop
    /\ \E e \in {Current} :
        /\ ~NameChanged(e)
        /\ Advance(e, "same")
        /\ UNCHANGED <<files, renamed_count, out, pc>>

\* the target exists: the entry is reported as skipped ("continue")
StepSkip ==
    /\ InLoop
    /\ \E e \in {Current} :
        /\ NameChanged(e)
        /\ TargetExists(files, e)
        /\ out' = Append(out, Line("skip", e.old_name, e.new_name, 0))
        /\ Advance(e, "skip")
        /\ UNCHANGED <<files, renamed_count, pc>>

\* dry run: the pair is printed, nothing else happens
StepDryRun ==
    /\ InLoop
    /\ \E e \in {Current} :
        /\ NameChanged(e)
        /\ ~TargetExists(files, e)
        /\ ~Executes(dry_run)
        /\ out' = Append(out, Line("plan", e.old_name, e.new_name, 0))
        /\ Advance(e, "plan")
        /\ UNCHANGED <<files, renamed_count, pc>>

\* execute: the pair is printed, file_path.rename(new_path) succeeds and is counted
StepRename ==
    /\ InLoop
    /\ \E e \in {Current} :
        /\ NameChanged(e)
        /\ ~TargetExists(files, e)
        /\ Executes(dry_run)
        /\ out' = Append(out, Line("plan", e.old_name, e.new_name, 0))
        /\ files' = (files \ {e.file_path}) \cup {e.new_path}
        /\ renamed_count' = renamed_count + 1
        /\ Advance(e, "renamed")
        /\ UNCHANGED pc

\* a variant without the try/except: the exception ends the run
StepRenameErrorUncaught ==
    /\ InLoop
    /\ \E e \in {Current} :
        /\ NameChanged(e)
        /\ ~TargetExists(files, e)
        /\ Executes(dry_run)
        /\ out' = Append(out, Line("plan", e.old_name, e.new_name, 0))
        /\ Advance(e, "failed")
        /\ pc' = "done"
        /\ UNCHANGED <<files, renamed_count>>

\* execute: the pair is printed, file_path.rename(new_path) raises; the handler
\* prints the error and the loop goes on
StepRenameError ==
    /\ InLoop
    /\ \E e \in {Current} :
        /\ NameChanged(e)
        /\ ~TargetExists(files, e)
        /\ Executes(dry_run)
        /\ out' = out \o <<Line("plan", e.old_name, e.new_name, 0),
                           Line("error", e.old_name, <<>>, 0)>>
        /\ Advance(e, "failed")
        /\ UNCHANGED <<files, renamed_count, pc>>

\* after the loop: the summary line, and in a dry run the hint
Summary ==
    /\ pc = "loop"
    /\ idx > Len(listing)
    /\ out' = out \o <<Line(IF dry_run THEN "would_rename" ELSE "renamed", <<>>, <<>>, renamed_count)>>
                  \o (IF dry_run THEN <<Line("hint", <<>>, <<>>, 0)>> ELSE <<>>)
    /\ pc' = "done"
    /\ UNCHANGED <<args, now, dir_exists, files, pattern, dry_run, listing, idx,
                   renamed_count, trace, fs0, runs, prev, fn_in, fn_out>>

Next ==
    \/ MainNoPattern
    \/ RunNoDirectory
    \/ RunNoFiles
    \/ RunBegin
    \/ StepUnchanged
    \/ StepSkip
    \/ StepDryRun
    \/ StepRename
    \/ StepRenameError
    \/ Summary

Spec == Init /\ [][Next]_vars

(***************************************************************************)
(* sanitize_filename on its own: a filename is drawn and the function is   *)
(* applied to it, then to its own result.                                  *)
(***************************************************************************)
\* the characters filenames are drawn from: a letter, whitespace, underscore,
\* dot, a special character, hyphen
SanitizeAlphabet == {"a", " ", "_", ".", "#", "-"}

\* longest filename drawn
MaxLen == 4

\* number of successive applications
MaxApply == 2

Filenames == UNION {[1..n -> SanitizeAlphabet] : n \in 0..MaxLen}

InitSanitize ==
    /\ fn_in \in Filenames
    /\ fn_out = <<>>
    /\ args = [sanitize |-> TRUE, prefix |-> <<>>, suffix |-> <<>>, replace |-> <<>>,
               sequential |-> FALSE, digits |-> 3, date |-> FALSE,
               date_format |-> <<"%", "Y", "%", "m", "%", "d">>, recursive |-> FALSE]
    /\ now \in Clock
    /\ dir_exists = FALSE
    /\ files = {}
    /\ pc = "idle"
    /\ pattern = <<>>
    /\ dry_run = TRUE
    /\ listing = <<>>
    /\ idx = 1
    /\ renamed_count = 0
    /\ out = <<>>
    /\ trace = <<>>
    /\ fs0 = {}
    /\ runs = 0
    /\ prev = NoPrev

\* sanitize_filename applied to the filename, then to the previous result
ApplySanitize ==
    /\ Len(fn_out) < MaxApply
    /\ fn_out' = Append(fn_out, sanitize_filename(IF fn_out = <<>> THEN fn_in
                                                  ELSE fn_out[Len(fn_out)]))
    /\ UNCHANGED <<args, now, dir_exists, files, pc, pattern, dry_run, listing, idx,
                   renamed_count, out, trace, fs0, runs, prev, fn_in>>

NextSanitize == ApplySanitize

SpecSanitize == InitSanitize /\ [][NextSanitize]_vars

(***************************************************************************)
(* Properties of sanitize_filename, checked under SpecSanitize.            *)
(***************************************************************************)
\* the filename keeps a base name after the special characters are removed,
\* or it has no extension
KeepsBaseOrNoExt(f) == RemoveSpecial(splitext(f)[1]) # <<>> \/ splitext(f)[2] = <<>>

\* C4 as stated: for every filename, sanitizing the sanitized name gives the
\* sanitized name again.
C4_SanitizeIdempotent ==
    Len(fn_out) >= 2 => fn_out[2] = fn_out[1]

\* C4 amended: sanitizing the sanitized name gives the sanitized name again
\* exactly for the filenames that keep a base name after the special
\* characters are removed or that have no extension; for a filename with an
\* extension whose base name consists only of removed characters, the first
\* result is the bare extension, which begins with a dot, and the second
\* result contains no dot.
C4_SanitizeIdempotentUnlessBareExtension ==
    Len(fn_out) >= 2 =>
        /\ KeepsBaseOrNoExt(fn_in) <=> fn_out[2] = fn_out[1]
        /\ ~KeepsBaseOrNoExt(fn_in) =>
              /\ fn_out[1] = splitext(fn_in)[2]
              /\ fn_out[1][1] = "."
              /\ \A i \in 1..Len(fn_out[2]) : fn_out[2][i] # "."

\* C4 witness: a filename that begins with a dot and has an extension, which
\* sanitize changed, has been sanitized twice with the same result.
C4_Witness ==
    /\ Len(fn_out) >= 2
    /\ fn_in # <<>> /\ fn_in[1] = "."
    /\ splitext(fn_in)[2] # <<>>
    /\ fn_out[1] # fn_in
    /\ fn_out[2] = fn_out[1]

(***************************************************************************)
(* Properties of rename_files, checked under Spec.                         *)
(***************************************************************************)
\* rename_files has entered its loop (and may have finished it)
InRun == pc \in {"loop", "done"} /\ listing # <<>>

\* rename_files has printed its summary and returned
Finished == pc = "done" /\ listing # <<>>

\* a processed entry's transformed name differs from its name
Changed(t) == t.new # Name(t.path)

\* a processed entry's target path
TargetOf(t) == JoinPath(Parent(t.path), t.new)

\* the processed entries with a given outcome
Entries(what) == {i \in DOMAIN trace : trace[i].what = what}

\* C1: in a dry run the files of the directory are, at every point of the
\* run and after it, exactly the files it started with.
C1_DryRunLeavesFilesUnchanged ==
    (InRun /\ dry_run) => files = fs0

\* C1 witness: a dry run has finished after printing at least one planned
\* rename.
C1_Witness ==
    /\ Finished
    /\ dry_run
    /\ Entries("plan") # {}

\* C2 as stated: an entry whose target existed when the run started is
\* skipped, in a dry run and in execute mode, whatever was renamed before it.
C2_SkippedIfTargetExistedAtStart ==
    InRun =>
        \A i \in DOMAIN trace :
            (Changed(trace[i]) /\ PathExists(fs0, TargetOf(trace[i])))
                => trace[i].what = "skip"

\* C2 amended: an entry whose target exists at the moment the entry is
\* processed is skipped: it is reported as skipped, no file is renamed and the
\* count does not change. In a dry run the directory is still the one the run
\* started with, so there this is every target that existed before the run.
C2_SkippedIfTargetExistsWhenProcessed ==
    [][InLoop =>
        /\ dry_run => files = fs0
        /\ \A e \in {Current} :
              (/\ e.new_name # e.old_name
               /\ \/ e.new_path \in files
                  \/ e.new_path \in Dirs(files)
                  \/ e.new_path = <<>>)
              => /\ files' = files
                 /\ renamed_count' = renamed_count
                 /\ out' = Append(out, Line("skip", e.old_name, e.new_name, 0))
                 /\ trace' = Append(trace, [path |-> e.file_path, new |-> e.new_name,
                                            what |-> "skip"])]_vars

\* C2 witness: an execute run has finished in which an entry whose target
\* existed before the run was skipped and another entry was renamed.
C2_Witness ==
    /\ Finished
    /\ ~dry_run
    /\ \E i \in Entries("skip") : TargetOf(trace[i]) \in fs0
    /\ Entries("renamed") # {}

\* the count printed in the summary line
ReportedCount ==
    LET i == CHOOSE j \in DOMAIN out : out[j].k \in {"would_rename", "renamed"}
    IN out[i].n

\* C3: the count of the summary line is, in execute mode, the number of
\* entries renamed and, in a dry run, the number of entries whose name
\* changes and whose target does not exist.
C3_ReportedCountIsRenamedOrWouldBe ==
    Finished =>
        ReportedCount =
            IF dry_run
            THEN Cardinality({i \in DOMAIN trace :
                                /\ Changed(trace[i])
                                /\ ~PathExists(fs0, TargetOf(trace[i]))})
            ELSE Cardinality(Entries("renamed"))

\* the fixed order of the transforms
TransformOrder == <<"sanitize", "replace", "prefix", "suffix", "sequential", "date">>

\* a transform is enabled on the command line
EnabledOn(a, key) ==
    CASE key = "sanitize" -> a.sanitize
      [] key = "replace" -> a.replace # <<>>
      [] key = "prefix" -> a.prefix # <<>>
      [] key = "suffix" -> a.suffix # <<>>
      [] key = "sequential" -> a.sequential
      [] key = "date" -> a.date

\* one transform applied to a name, for the entry at position i
ApplyOne(a, key, name, i) ==
    CASE key = "sanitize" -> sanitize_filename(name)
      [] key = "replace" -> replace_text(name, a.replace[1], a.replace[2])
      [] key = "prefix" -> add_prefix(name, a.prefix)
      [] key = "suffix" -> add_suffix(name, a.suffix)
      [] key = "sequential" -> add_sequential_number(name, i, a.digits)
      [] key = "date" -> add_date_stamp(name, a.date_format, now)

\* the enabled transforms among keys applied one after the other
RECURSIVE Compose(_, _, _, _)
Compose(a, keys, name, i) ==
    IF keys = <<>> THEN name
    ELSE Compose(a, Tail(keys),
                 IF EnabledOn(a, Head(keys)) THEN ApplyOne(a, Head(keys), name, i) ELSE name,
                 i)

\* C5: the new name of every processed entry is the composition of the
\* transforms enabled on the command line in the order sanitize, replace,
\* prefix, suffix, sequential, date, each applied to the result of the
\* previous enabled one.
C5_NewNameIsCompositionInFixedOrder ==
    InRun =>
        \A i \in DOMAIN trace :
            trace[i].new = Compose(args, TransformOrder, Name(trace[i].path), i)

\* C5 witness: a run with all six transforms enabled has renamed an entry.
C5_Witness ==
    /\ Finished
    /\ \A k \in 1..Len(TransformOrder) : EnabledOn(args, TransformOrder[k])
    /\ Entries("renamed") # {}

\* only --sequential is given
SequentialOnly ==
    /\ args.sequential
    /\ ~args.sanitize /\ ~args.date
    /\ args.prefix = <<>> /\ args.suffix = <<>> /\ args.replace = <<>>

\* the files the run listed, and the 1-based position of one of them in
\* ascending path order
Listed0 == ListFiles(fs0, args.recursive)

Position(p) == 1 + Cardinality({q \in Listed0 : PathLess(q, p)})

\* the number a decimal numeral denotes
RECURSIVE NumeralValue(_)
NumeralValue(s) ==
    IF s = <<>> THEN 0
    ELSE 10 * NumeralValue(SubSeq(s, 1, Len(s) - 1))
         + (CHOOSE d \in 0..9 : Digits[d + 1] = s[Len(s)])

\* the least number of decimal digits of n >= 1
RECURSIVE NumDigits(_)
NumDigits(n) == IF n < 10 THEN 1 ELSE 1 + NumDigits(n \div 10)

\* C6: with only the sequential transform, the i-th processed entry is the
\* file at position i of the ascending path order of the listing, its new
\* name is <stem>_<numeral><ext> where the numeral denotes i and is padded
\* with zeros to the configured width, skipped or not; a finished run has
\* processed N entries, so the indices are 1..N, each once.
C6_SequentialIndexIsSortedPosition ==
    (InRun /\ SequentialOnly) =>
        /\ \A i \in DOMAIN trace :
              LET t == trace[i]
                  ne == splitext(Name(t.path))
                  num == SubSeq(t.new, Len(ne[1]) + 2, Len(t.new) - Len(ne[2]))
              IN /\ Position(t.path) = i
                 /\ t.new = ne[1] \o <<"_">> \o num \o ne[2]
                 /\ \A k \in 1..Len(num) : num[k] \in DigitSet
                 /\ NumeralValue(num) = i
                 /\ Len(num) = (IF NumDigits(i) > args.digits THEN NumDigits(i)
                                ELSE args.digits)
        /\ Finished => Len(trace) = Cardinality(Listed0)

\* C6 witness: a run with only the sequential transform has finished; its
\* first entry was skipped and its second entry, numbered 2, was renamed.
C6_Witness ==
    /\ Finished
    /\ SequentialOnly
    /\ Len(trace) >= 2
    /\ trace[1].what = "skip"
    /\ trace[2].what = "renamed"

\* C7: an entry whose transformed name equals its name is left alone: no
\* line is printed for it (neither a pair nor a skip), its file keeps its
\* path, and it is not counted.
C7_UnchangedNameIsLeftAlone ==
    InRun =>
        /\ \A i \in DOMAIN trace :
              ~Changed(trace[i]) =>
                  /\ trace[i].what = "same"
                  /\ trace[i].path \in files
                  /\ \A j \in DOMAIN out :
                        out[j].k \in {"plan", "skip", "error"}
                            => out[j].old # Name(trace[i].path)
        /\ renamed_count <= Cardinality({i \in DOMAIN trace : Changed(trace[i])})

\* C7 witness: an execute run has finished in which one entry's name did not
\* change and another entry was renamed.
C7_Witness ==
    /\ Finished
    /\ ~dry_run
    /\ \E i \in DOMAIN trace : ~Changed(trace[i])
    /\ Entries("renamed") # {}

\* C8: once a rename has failed the run goes on in execute mode: the loop
\* is at the entry after the last processed one, the summary can be printed
\* when no entry remains, the run ends with the summary line after every
\* entry of the listing has been processed, and the failed entry's file is
\* still at its original path.
C8_RenameFailureDoesNotAbort ==
    Entries("failed") # {} =>
        /\ ~dry_run
        /\ pc \in {"loop", "done"}
        /\ pc = "loop" =>
              /\ idx = Len(trace) + 1
              /\ idx <= Len(listing) + 1
              /\ idx > Len(listing) => ENABLED Summary
        /\ pc = "done" =>
              /\ Len(trace) = Len(listing)
              /\ out[Len(out)].k = "renamed"
        /\ \A i \in Entries("failed") : trace[i].path \in files

\* C8 witness: an execute run has finished in which the first entry's rename
\* failed and a later entry was renamed.
C8_Witness ==
    /\ Finished
    /\ Len(trace) >= 2
    /\ trace[1].what = "failed"
    /\ \E j \in Entries("renamed") : j > 1

\* the listing a run printed: its (old -> new) pairs and its skips, in order
Plan(o) == SelectSeq(o, LAMBDA l : l.k \in {"plan", "skip"})

\* C9: an execute run that follows a dry run of the same configuration on
\* the same directory content prints the pairs and skips the dry run printed.
C9_ExecutePrintsTheDryRunPlan ==
    (Finished /\ ~dry_run /\ prev.valid /\ prev.dry_run /\ prev.fs0 = fs0)
        => Plan(out) = Plan(prev.out)

\* C10 as stated, for the runs in which no rename fails: in execute mode the
\* number of files does not change, and of two entries with the same target
\* only the first in sort order is renamed: the later one is not.
C10_OnlyFirstOfSameTargetRenamed ==
    (InRun /\ ~dry_run /\ Entries("failed") = {}) =>
        /\ Cardinality(files) = Cardinality(fs0)
        /\ \A i, j \in DOMAIN trace :
              (i < j /\ Changed(trace[i]) /\ Changed(trace[j])
                     /\ TargetOf(trace[i]) = TargetOf(trace[j]))
                  => trace[j].what # "renamed"

\* C10 amended: the files change only by an execute-mode rename of one file
\* to a path at which nothing exists at that moment, so the number of files
\* stays the same; of two entries with the same target at most one is
\* renamed, and once one has been renamed every later one is skipped (the
\* first in sort order is not renamed when its target exists at its turn or
\* its rename fails, and a later one may then be renamed).
C10_NoOverwriteAtMostOneRenamed ==
    [][/\ files' # files =>
            /\ ~dry_run
            /\ \E src \in files : \E dst \in files' \ files :
                  /\ dst \notin Dirs(files)
                  /\ files' = (files \ {src}) \cup {dst}
       /\ InRun' =>
            /\ Cardinality(files') = Cardinality(fs0')
            /\ \A i, j \in DOMAIN trace' :
                  (i < j /\ Changed(trace'[i]) /\ Changed(trace'[j])
                         /\ TargetOf(trace'[i]) = TargetOf(trace'[j]))
                      => /\ ~(trace'[i].what = "renamed" /\ trace'[j].what = "renamed")
                         /\ trace'[i].what = "renamed" => trace'[j].what = "skip"]_vars

\* C10 witness: an execute run has finished in which two entries had the
\* same target, the first was renamed and the later one was skipped.
C10_Witness ==
    /\ Finished
    /\ ~dry_run
    /\ \E i, j \in DOMAIN trace :
          /\ i < j
          /\ TargetOf(trace[i]) = TargetOf(trace[j])
          /\ trace[i].what = "renamed"
          /\ trace[j].what = "skip"

====
